---- MODULE Spec2Model ----
(***************************************************************************)
(* A model of the synthetic-data generators of experiments/generate_data.py *)
(* and of the baseline evaluation protocol of baselines.py.                 *)
(*                                                                          *)
(* Vectors and matrices are sequences indexed from 1: the Python index i    *)
(* is the index i+1 here.  Parent (latent factor) numbers keep the Python   *)
(* values 0..m-1.                                                           *)
(*                                                                          *)
(* Floating-point numbers are modelled as a miniature binary floating-point *)
(* format: Prec significant bits, round-to-nearest-even after every         *)
(* operation, and a smallest quantum of 2^-FracBits.  A float is held as    *)
(* the integer count of quanta it equals.                                   *)
(***************************************************************************)
EXTENDS Integers, Sequences, FiniteSets, TLC

\* ------------------------------------------------------------------------
\* Bounds of the model
\* ------------------------------------------------------------------------
Prec == 3
FracBits == 6
MaxNvMatrix == 3
RngMod == 16
MaxNv == 3
MaxM == 2
MaxNt == 3
MaxNtSmooth == 6
MaxNs == 1

MaxScores == 3

MaxIter == 3

MaxTrain == 2

\* ------------------------------------------------------------------------
\* Floating-point arithmetic
\* ------------------------------------------------------------------------
\* A function on 1..n as the sequence of its values.
AsSeq(f) == f \o << >>

Abs(x) == IF x < 0 THEN -x ELSE x

Sign(x) == IF x < 0 THEN -1 ELSE IF x > 0 THEN 1 ELSE 0

Quantum == 2 ^ FracBits

\* The float equal to the integer n.
FInt(n) == n * Quantum

\* The nearest integer to u/w (u >= 0, w > 0), a tie going to the even one.
RoundHalfEven(u, w) ==
  LET q == u \div w
      r == u % w
  IN  IF 2 * r < w THEN q
      ELSE IF 2 * r > w THEN q + 1
      ELSE IF q % 2 = 0 THEN q ELSE q + 1

\* The spacing of the floats around u/w: the least power of two s with
\* u/w < 2^Prec * s.
RECURSIVE Spacing(_, _, _)
Spacing(u, w, s) == IF u < (2 ^ Prec) * w * s THEN s ELSE Spacing(u, w, 2 * s)

\* The float nearest to the real number num/den quanta (den > 0).
FlRound(num, den) ==
  LET u == Abs(num)
      s == Spacing(u, den, 1)
  IN  Sign(num) * s * RoundHalfEven(u, den * s)

IsFloat(n) == FlRound(n, 1) = n

FMul(a, b) == FlRound(a * b, Quantum)

FAdd(a, b) == FlRound(a + b, 1)

FSub(a, b) == FlRound(a - b, 1)

FDiv(a, b) == Sign(b) * FlRound(a * Quantum, Abs(b))

\* ------------------------------------------------------------------------
\* nglf_matrix_from_params
\* ------------------------------------------------------------------------
NglfEntry(x_std, cor, par, i, j) ==
  IF par[i] # par[j] THEN 0
  ELSE IF i = j THEN FMul(x_std[i], x_std[i])
  ELSE FMul(FMul(FMul(x_std[i], cor[i]), x_std[j]), cor[j])

nglf_matrix_from_params(x_std, cor, par) ==
  LET nv == Len(x_std)
  IN  AsSeq([i \in 1..nv |-> AsSeq([j \in 1..nv |-> NglfEntry(x_std, cor, par, i, j)])])

\* The integer part of the square root of x, for lo * lo <= x < hi * hi.
RECURSIVE ISqrt(_, _, _)
ISqrt(x, lo, hi) ==
  IF hi - lo <= 1 THEN lo
  ELSE LET mid == (lo + hi) \div 2
       IN  IF mid * mid <= x THEN ISqrt(x, mid, hi) ELSE ISqrt(x, lo, mid)

\* A power of two whose square exceeds x.
RECURSIVE Above(_, _)
Above(x, h) == IF h * h > x THEN h ELSE Above(x, 2 * h)

\* The nearest float to the square root of the float a (a >= 0).
FSqrt(a) ==
  LET x == a * Quantum
      r == ISqrt(x, 0, Above(x, 1))
      s == Spacing(r, 1, 1)
      lo == (r \div s) * s
      hi == lo + s
  IN  IF lo * lo = x \/ 4 * x < (lo + hi) * (lo + hi) THEN lo ELSE hi

\* ------------------------------------------------------------------------
\* The random sources: numpy's np.random and Python's random are each a
\* deterministic generator with a process-wide state.  The state space is
\* cut down to RngMod states; seeding fixes the state, every draw advances it.
\* ------------------------------------------------------------------------
seed(k) == k % RngMod

RngNext(s) == (5 * s + 3) % RngMod

\* The state after k draws from state s.
RECURSIVE NthState(_, _)
NthState(s, k) == IF k = 0 THEN s ELSE NthState(RngNext(s), k - 1)

\* The float in [0, 1) a draw yields in state s.
random_sample(s) == ((((s * (2 ^ Prec)) \div RngMod) * Quantum) \div (2 ^ Prec))

\* np.random.uniform(low, high): low + (high - low) * random_sample().
uniform(low, high, s) == FAdd(low, FMul(FSub(high, low), random_sample(s)))

\* np.random.normal(): a standard normal deviate, symmetric about 0.
normal(s) == FlRound((2 * s - RngMod + 1) * 2 * Quantum, RngMod)

\* An integer in [low, high], the upper end included.
randintInclusive(low, high, s) == low + ((s * (high - low + 1)) \div RngMod)

\* np.random.randint(low, high) for low < high: an integer in [low, high).
randint(low, high, s) == low + ((s * (high - low)) \div RngMod)

\* ------------------------------------------------------------------------
\* nglf_sufficient_params: 4*nv draws, in the order x_std, cor_signs, snrs, par
\* ------------------------------------------------------------------------
nglf_sufficient_params(nv, m, snr, min_std, max_std, s) ==
  LET x_std == AsSeq([i \in 1..nv |-> uniform(min_std, max_std, NthState(s, i))])
      cor_signs == AsSeq([i \in 1..nv |-> Sign(normal(NthState(s, nv + i)))])
      snrs == AsSeq([i \in 1..nv |-> uniform(0, snr, NthState(s, 2 * nv + i))])
      rhos == AsSeq([i \in 1..nv |-> FSqrt(FDiv(snrs[i], FAdd(snrs[i], FInt(1))))])
      cor == AsSeq([i \in 1..nv |-> FMul(FInt(cor_signs[i]), rhos[i])])
      par == AsSeq([i \in 1..nv |-> randint(0, m, NthState(s, 3 * nv + i))])
  IN  [x_std |-> x_std, cor |-> cor, par |-> par,
       rng |-> NthState(s, 4 * nv), draws |-> 4 * nv]

\* ------------------------------------------------------------------------
\* sample_from_nglf
\* ------------------------------------------------------------------------
\* Python's None, where a matrix or a sample block is expected.
None == << >>

\* The sum of the floats of the sequence v, accumulated left to right.
RECURSIVE FSum(_, _)
FSum(v, k) == IF k = 0 THEN 0 ELSE FAdd(FSum(v, k - 1), v[k])

\* np.random.multivariate_normal(0, sigma, size=(ns,)): sample k is a linear
\* image, fixed by sigma, of nv standard normal draws.
multivariate_normal(sigma, nv, ns, s) ==
  AsSeq([k \in 1..ns |->
     LET z == AsSeq([j \in 1..nv |-> normal(NthState(s, (k - 1) * nv + j))])
     IN  AsSeq([i \in 1..nv |->
                  FSum(AsSeq([j \in 1..nv |-> FMul(sigma[i][j], z[j])]), nv)])])

\* generate_single of the graphical mode, from state s: m + nv draws.
generate_single(nv, m, x_std, cor, par, s) ==
  LET z == AsSeq([k \in 1..m |-> normal(NthState(s, k))])
  IN  AsSeq([i \in 1..nv |->
         LET cond_mean == FMul(FMul(cor[i], x_std[i]), z[par[i] + 1])
             cond_var == FMul(FMul(x_std[i], x_std[i]),
                              FSub(FInt(1), FMul(cor[i], cor[i])))
         IN  FAdd(cond_mean, FMul(FSqrt(cond_var), normal(NthState(s, m + i))))])

\* The result of a call: err is "none" when the call returns.
Outcome(err, data, sigma, rng, draws) ==
  [err |-> err, data |-> data, sigma |-> sigma, rng |-> rng, draws |-> draws]

sample_from_nglf(nv, m, x_std, cor, par, ns, from_matrix, s) ==
  IF from_matrix
  THEN LET sigma == nglf_matrix_from_params(x_std, cor, par)
       IN  Outcome("none", multivariate_normal(sigma, nv, ns, s), sigma,
                   NthState(s, ns * nv), ns * nv)
  ELSE IF ns > 0 /\ \E i \in 1..nv : par[i] >= m
  THEN \* z[par[i]] is out of range in the first sample, after the m draws
       \* of z and one draw for each variable before i
       LET bad == CHOOSE i \in 1..nv :
                    par[i] >= m /\ \A j \in 1..(i - 1) : par[j] < m
       IN  Outcome("IndexError", None, None, NthState(s, m + bad - 1), m + bad - 1)
  ELSE Outcome("none",
               AsSeq([k \in 1..ns |->
                  generate_single(nv, m, x_std, cor, par, NthState(s, (k - 1) * (m + nv)))]),
               None, NthState(s, ns * (m + nv)), ns * (m + nv))

\* ------------------------------------------------------------------------
\* generate_nglf
\* ------------------------------------------------------------------------
\* par = [i // block_size for i in range(nv)], for block_size > 0
BlockParents(nv, m, block_size) == AsSeq([i \in 1..nv |-> (i - 1) \div block_size])

\* The outcome of generate_nglf from state s, with the parameters handed to
\* sample_from_nglf (handed is FALSE when the call fails before that).
generate_nglf(nv, m, ns, snr, min_std, max_std, shuffle, from_matrix, s) ==
  LET block_size == nv \div m
      p == nglf_sufficient_params(nv, m, snr, min_std, max_std, s)
  IN  IF ~shuffle /\ block_size = 0
      THEN [out |-> Outcome("ZeroDivisionError", None, None, p.rng, p.draws),
            handed |-> FALSE, x_std |-> p.x_std, cor |-> p.cor, par |-> p.par]
      ELSE LET par == IF shuffle THEN p.par ELSE BlockParents(nv, m, block_size)
               r == sample_from_nglf(nv, m, p.x_std, p.cor, par, ns, from_matrix, p.rng)
           IN  [out |-> Outcome(r.err, r.data, r.sigma, r.rng, p.draws + r.draws),
                handed |-> TRUE, x_std |-> p.x_std, cor |-> p.cor, par |-> par]

\* Default arguments of the generators.
default_snr == FInt(5)

default_min_std == Quantum \div 4

default_max_std == FInt(4)

\* ------------------------------------------------------------------------
\* State
\* ------------------------------------------------------------------------
VARIABLES
  arg_x_std,   \* nglf_matrix_from_params: the caller's x_std
  arg_cor,     \* the caller's cor
  arg_par,     \* the caller's par
  given,       \* the three arguments as they were when the call began
  S,           \* the returned matrix, << >> before the call returns
  cfg,         \* the experiment's configuration: nv, m, shuffle, from_matrix
  rng,         \* process-wide state of np.random
  pyrng,       \* process-wide state of Python's random
  pc,          \* where the running generator call stands; "idle", "done"
  fn,          \* the generator being called
  nt,          \* its argument nt
  ns,          \* its argument ns
  err,         \* "none", or the error that ended the call
  draws,       \* draws taken from the random sources since the call began
  segment_lens,
  seg_id,
  data,
  ground_truth,
  handed,      \* the parameter sets handed to the sampler, in order
  nglfs,       \* load_nglf_smooth_change: the boundary parameter sets
  sampled,     \* nglfs as nglf_sufficient_params returned them
  change_points,
  st,
  t,
  alphas,      \* the interpolation weight of every time step so far
  prev,        \* << >>, or the one previous call of load_nglf_sudden_change
  baseline,    \* the class of the baseline whose method is called
  arg_scores,  \* report_scores called on its own: its argument scores
  n_iter,      \* the argument n_iter
  n_train,     \* len(train_data)
  ev_pc,       \* where the call stands; "idle", "done"
  iteration,   \* the loop variable of evaluate
  covs,        \* len(covs)
  scores,      \* the list scores of evaluate
  nll,         \* << >>, or the one score of an evaluate without a loop
  fitted,      \* per training step, the fits it has been through
  nlls,        \* calls of metric_utils.calculate_nll_score so far
  started,     \* the iterations begun
  failed,      \* the iterations in which a collaborator raised, in order
  summary,     \* what the call returned, None before it returns
  ev_err       \* "none", or the error that ended the call

matVars == <<arg_x_std, arg_cor, arg_par, given, S>>

smoothVars == <<nglfs, sampled, change_points, st, t, alphas>>

genVars == <<cfg, rng, pyrng, pc, fn, nt, ns, err, draws, segment_lens, seg_id,
             data, ground_truth, handed, smoothVars, prev>>

evalVars == <<baseline, arg_scores, n_iter, n_train, ev_pc, iteration, covs, scores,
              nll, fitted, nlls, started, failed, summary, ev_err>>

vars == <<matVars, genVars, evalVars>>

\* ------------------------------------------------------------------------
\* The generators
\* ------------------------------------------------------------------------
n_segments == 2

RECURSIVE SumSeq(_, _)
SumSeq(v, k) == IF k = 0 THEN 0 ELSE SumSeq(v, k - 1) + v[k]

SegmentLensFirst(n) ==
  LET base == [i \in 1..n_segments |-> n \div n_segments]
  IN  [base EXCEPT ![1] = @ + (n - SumSeq(base, n_segments))]

\* segment_lens = [nt // n_segments ...]; segment_lens[-1] += nt - sum(segment_lens)
SegmentLens(n) ==
  LET base == [i \in 1..n_segments |-> n \div n_segments]
  IN  [base EXCEPT ![n_segments] = @ + (n - SumSeq(base, n_segments))]

Params(p) == [x_std |-> p.x_std, cor |-> p.cor, par |-> p.par]

\* No generator has been called: the state the matrix calls leave alone.
GenIdle ==
  /\ cfg = [nv |-> 1, m |-> 1, shuffle |-> FALSE, from_matrix |-> TRUE]
  /\ rng = 0
  /\ pyrng = 0
  /\ pc = "idle"
  /\ fn = "none"
  /\ nt = 0
  /\ ns = 0
  /\ err = "none"
  /\ draws = 0
  /\ segment_lens = << >>
  /\ seg_id = 0
  /\ data = << >>
  /\ ground_truth = << >>
  /\ handed = << >>
  /\ nglfs = << >>
  /\ sampled = << >>
  /\ change_points = << >>
  /\ st = 0
  /\ t = 0
  /\ alphas = << >>
  /\ prev = << >>

\* No method of a baseline has been called.
EvalIdle ==
  /\ baseline = "none"
  /\ arg_scores = << >>
  /\ n_iter = 0
  /\ n_train = 0
  /\ ev_pc = "idle"
  /\ iteration = 0
  /\ covs = 0
  /\ scores = << >>
  /\ nll = << >>
  /\ fitted = << >>
  /\ nlls = 0
  /\ started = {}
  /\ failed = << >>
  /\ summary = None
  /\ ev_err = "none"

\* ------------------------------------------------------------------------
\* Calls of nglf_matrix_from_params on arbitrary parameter triples
\* ------------------------------------------------------------------------
\* Standard deviations and correlations a caller may pass (floats).
Eighths(k) == (k * Quantum) \div 8

StdVals == {n \in {Eighths(6), Eighths(10), Eighths(14)} : IsFloat(n)}

CorVals == {n \in {Eighths(-5), Eighths(5), Eighths(7)} : IsFloat(n)}

ParVals == 0..1

Vectors(nv, vals) == [1..nv -> vals]

InitMatrix ==
  /\ \E nv \in 1..MaxNvMatrix :
       /\ arg_x_std \in Vectors(nv, StdVals)
       /\ arg_cor \in Vectors(nv, CorVals)
       /\ arg_par \in Vectors(nv, ParVals)
  /\ given = <<arg_x_std, arg_cor, arg_par>>
  /\ S = << >>
  /\ GenIdle
  /\ EvalIdle

BuildMatrix ==
  /\ S = << >>
  /\ S' = nglf_matrix_from_params(arg_x_std, arg_cor, arg_par)
  /\ UNCHANGED <<arg_x_std, arg_cor, arg_par, given, genVars, evalVars>>

NextMatrix == BuildMatrix

SpecMatrix == InitMatrix /\ [][NextMatrix]_vars

\* C1: once nglf_matrix_from_params has returned S for (x_std, cor, par),
\* every entry S[i][j] is 0 when par[i] # par[j], x_std[i]^2 when i = j and
\* x_std[i]*cor[i]*x_std[j]*cor[j] otherwise, S[i][j] = S[j][i] for all i, j,
\* and the three arguments are what they were when the call began.
C1_ClosedFormSymmetric ==
  S # << >> =>
    LET nv == Len(arg_x_std)
        x == arg_x_std
        c == arg_cor
    IN  /\ Len(S) = nv
        /\ \A i, j \in 1..nv :
             /\ Len(S[i]) = nv
             /\ arg_par[i] # arg_par[j] => S[i][j] = 0
             /\ arg_par[i] = arg_par[j] /\ i = j => S[i][j] = FMul(x[i], x[i])
             /\ arg_par[i] = arg_par[j] /\ i # j =>
                  S[i][j] = FMul(FMul(FMul(x[i], c[i]), x[j]), c[j])
             /\ S[i][j] = S[j][i]
        /\ <<arg_x_std, arg_cor, arg_par>> = given

\* ------------------------------------------------------------------------
\* Generator calls.  The experiment fixes (nv, m, shuffle, from_matrix);
\* each call chooses nt and ns; snr, min_std and max_std keep their defaults.
\* ------------------------------------------------------------------------
InitGen ==
  /\ arg_x_std = << >>
  /\ arg_cor = << >>
  /\ arg_par = << >>
  /\ given = << >>
  /\ S = << >>
  /\ cfg \in [nv : 1..MaxNv, m : 1..MaxM, shuffle : BOOLEAN, from_matrix : BOOLEAN]
  /\ rng \in 0..(RngMod - 1)
  /\ pyrng \in {0, RngMod - 1}
  /\ pc = "idle"
  /\ fn = "none"
  /\ nt = 0
  /\ ns = 0
  /\ err = "none"
  /\ draws = 0
  /\ segment_lens = << >>
  /\ seg_id = 0
  /\ data = << >>
  /\ ground_truth = << >>
  /\ handed = << >>
  /\ nglfs = << >>
  /\ sampled = << >>
  /\ change_points = << >>
  /\ st = 0
  /\ t = 0
  /\ alphas = << >>
  /\ prev = << >>
  /\ EvalIdle

\* What a finished call of load_nglf_sudden_change leaves for comparison.
Finished ==
  [nt |-> nt, ns |-> ns, err |-> err, data |-> data,
   ground_truth |-> ground_truth, handed |-> handed]

\* The start of any call: fresh locals; a finished sudden-change call is kept.
Enter(f, a_nt, a_ns) ==
  /\ pc \in {"idle", "done"}
  /\ fn' = f
  /\ nt' = a_nt
  /\ ns' = a_ns
  /\ prev' = IF pc = "done" /\ fn = "load_nglf_sudden_change" THEN <<Finished>> ELSE prev
  /\ UNCHANGED <<matVars, evalVars, cfg>>

\* generate_nglf(nv, m, ns, shuffle=..., from_matrix=...), the whole call
CallGenerateNglf ==
  \E a_ns \in 0..MaxNs :
    \E g \in {generate_nglf(cfg.nv, cfg.m, a_ns, default_snr, default_min_std,
                            default_max_std, cfg.shuffle, cfg.from_matrix, rng)} :
        /\ Enter("generate_nglf", 0, a_ns)
        /\ rng' = g.out.rng
        /\ draws' = g.out.draws
        /\ err' = g.out.err
        /\ data' = g.out.data
        /\ ground_truth' = g.out.sigma
        /\ handed' = IF g.handed THEN <<Params(g)>> ELSE << >>
        /\ pc' = "done"
        /\ segment_lens' = << >>
        /\ seg_id' = 0
        /\ UNCHANGED <<pyrng, smoothVars>>

\* generate_general(nv, m, ns, shuffle=...), the whole call.  make_spd_matrix(b)
\* takes b*b draws from np.random, random.shuffle of nv items nv-1 draws from
\* random; line 116 then reads the unassigned name myu, so no call returns
\* and the matrix built is never seen.
CallGenerateGeneral ==
  \E a_ns \in 0..MaxNs :
    LET b == cfg.nv \div cfg.m
        spd == cfg.m * b * b
        shf == IF cfg.shuffle THEN cfg.nv - 1 ELSE 0
    IN  /\ Enter("generate_general", 0, a_ns)
        /\ IF cfg.nv % cfg.m # 0
           THEN /\ err' = "AssertionError"
                /\ draws' = 0
                /\ UNCHANGED <<rng, pyrng>>
           ELSE /\ err' = "NameError"
                /\ draws' = spd + shf
                /\ rng' = NthState(rng, spd)
                /\ pyrng' = NthState(pyrng, shf)
        /\ data' = << >>
        /\ ground_truth' = << >>
        /\ handed' = << >>
        /\ pc' = "done"
        /\ segment_lens' = << >>
        /\ seg_id' = 0
        /\ UNCHANGED smoothVars

\* load_nglf_sudden_change, lines 136-143: the segment lengths
CallSudden ==
  \E a_nt \in 0..MaxNt, a_ns \in 0..MaxNs :
    LET lens == SegmentLens(a_nt)
    IN  /\ Enter("load_nglf_sudden_change", a_nt, a_ns)
        /\ segment_lens' = lens
        /\ IF SumSeq(lens, n_segments) = a_nt
           THEN pc' = "sudden" /\ err' = "none"
           ELSE pc' = "done" /\ err' = "AssertionError"
        /\ draws' = 0
        /\ data' = << >>
        /\ ground_truth' = << >>
        /\ handed' = << >>
        /\ seg_id' = 0
        /\ UNCHANGED <<rng, pyrng, smoothVars>>

\* The time steps of a segment: cur_data.reshape((len, ns, nv)) as a list
Reshape(samples, len, a_ns) ==
  AsSeq([k \in 1..len |-> AsSeq([j \in 1..a_ns |-> samples[(k - 1) * a_ns + j]])])

\* One copy, whatever the length of the segment.
RepeatOnce(x, n) == IF n > 0 THEN <<x>> ELSE << >>

Repeat(x, n) == AsSeq([k \in 1..n |-> x])

SeedKept(k) == rng

\* np.random.seed(42 + seg_id)
SeedOfSegment(k) == seed(42 + k)

\* load_nglf_sudden_change, lines 144-147: a pass of the loop over segments
\* begins by seeding both random sources
SuddenSeed ==
  /\ pc = "sudden"
  /\ seg_id < n_segments
  /\ pyrng' = seed(42 + seg_id)
  /\ rng' = SeedOfSegment(seg_id)
  /\ pc' = "sudden_generate"
  /\ UNCHANGED <<matVars, evalVars, cfg, fn, nt, ns, err, draws, segment_lens, seg_id, data,
                 ground_truth, handed, smoothVars, prev>>

\* lines 149-154: the segment's samples and ground truth
SuddenGenerate ==
  /\ pc = "sudden_generate"
  /\ \E len \in {segment_lens[seg_id + 1]} :
     \E g \in {generate_nglf(cfg.nv, cfg.m, len * ns, default_snr, default_min_std,
                             default_max_std, cfg.shuffle, cfg.from_matrix, rng)} :
         /\ rng' = g.out.rng
         /\ draws' = draws + g.out.draws
         /\ handed' = IF g.handed THEN Append(handed, Params(g)) ELSE handed
         /\ IF g.out.err # "none"
            THEN /\ err' = g.out.err
                 /\ pc' = "done"
                 /\ UNCHANGED <<data, ground_truth, seg_id>>
            ELSE /\ data' = data \o Reshape(g.out.data, len, ns)
                 /\ ground_truth' = ground_truth \o Repeat(g.out.sigma, len)
                 /\ seg_id' = seg_id + 1
                 /\ pc' = "sudden"
                 /\ UNCHANGED err
  /\ UNCHANGED <<matVars, evalVars, cfg, pyrng, fn, nt, ns, segment_lens, smoothVars, prev>>

\* load_nglf_sudden_change, line 156
SuddenReturn ==
  /\ pc = "sudden"
  /\ seg_id = n_segments
  /\ pc' = "done"
  /\ UNCHANGED <<matVars, evalVars, cfg, rng, pyrng, fn, nt, ns, err, draws, segment_lens,
                 seg_id, data, ground_truth, handed, smoothVars, prev>>

\* load_nglf_smooth_change, lines 171-178: seeds and segment lengths
CallSmooth ==
  \E a_nt \in 0..MaxNtSmooth, a_ns \in 0..MaxNs :
    LET lens == SegmentLens(a_nt)
    IN  /\ Enter("load_nglf_smooth_change", a_nt, a_ns)
        /\ pyrng' = seed(42)
        /\ rng' = seed(42)
        /\ segment_lens' = lens
        /\ IF SumSeq(lens, n_segments) = a_nt
           THEN pc' = "smooth_params" /\ err' = "none"
           ELSE pc' = "done" /\ err' = "AssertionError"
        /\ draws' = 0
        /\ data' = << >>
        /\ ground_truth' = << >>
        /\ handed' = << >>
        /\ seg_id' = 0
        /\ nglfs' = << >>
        /\ sampled' = << >>
        /\ t' = 0
        /\ st' = 0
        /\ alphas' = << >>
        /\ change_points' = << >>

\* lines 179-185: the n_segments + 1 boundary parameter sets, and the locals
SmoothParams ==
  /\ pc = "smooth_params"
  /\ \E p1 \in {nglf_sufficient_params(cfg.nv, cfg.m, default_snr, default_min_std,
                                         default_max_std, rng)} :
     \E p2 \in {nglf_sufficient_params(cfg.nv, cfg.m, default_snr, default_min_std,
                                         default_max_std, p1.rng)} :
     \E p3 \in {nglf_sufficient_params(cfg.nv, cfg.m, default_snr, default_min_std,
                                         default_max_std, p2.rng)} :
         /\ nglfs' = <<Params(p1), Params(p2), Params(p3)>>
         /\ sampled' = <<Params(p1), Params(p2), Params(p3)>>
         /\ rng' = p3.rng
         /\ draws' = draws + p1.draws + p2.draws + p3.draws
  /\ data' = AsSeq([k \in 1..nt |-> AsSeq([j \in 1..ns |-> AsSeq([i \in 1..cfg.nv |-> 0])])])
  /\ ground_truth' = << >>
  /\ t' = 0
  /\ pc' = "smooth_seg"
  /\ UNCHANGED <<matVars, evalVars, cfg, pyrng, fn, nt, ns, err, segment_lens, seg_id, handed,
                 change_points, st, alphas, prev>>

\* lines 186-194: the head of one pass of the loop over segments.
\* np.random.randint(1, L) raises ValueError unless 1 < L.
SmoothSegment ==
  /\ pc = "smooth_seg"
  /\ seg_id < n_segments
  /\ LET L == segment_lens[seg_id + 1]
     IN  IF L <= 1
         THEN /\ err' = "ValueError"
              /\ pc' = "done"
              /\ UNCHANGED <<rng, draws, change_points, st>>
         ELSE /\ change_points' = AsSeq([i \in 1..cfg.nv |-> randint(1, L, NthState(rng, i))])
              /\ rng' = NthState(rng, cfg.nv)
              /\ draws' = draws + cfg.nv
              /\ st' = 0
              /\ pc' = "smooth_step"
              /\ UNCHANGED err
  /\ UNCHANGED <<matVars, evalVars, cfg, pyrng, fn, nt, ns, segment_lens, seg_id, data,
                 ground_truth, handed, nglfs, sampled, t, alphas, prev>>

\* A weight that runs from 1/L up to 1.
AlphaNext(a_st, L) == FDiv(FInt(a_st + 1), FInt(L))

\* The weight of the step st in a segment of length L: np.float(st) / L
Alpha(a_st, L) == FDiv(FInt(a_st), FInt(L))

\* (1 - alpha) * v1 + alpha * v2, elementwise
Interpolate(alpha, v1, v2) ==
  AsSeq([i \in 1..Len(v1) |->
           FAdd(FMul(FSub(FInt(1), alpha), v1[i]), FMul(alpha, v2[i]))])

\* lines 195-211: one time step.  par is the list nglfs[seg_id][2] itself, so
\* the switch of a parent is written into the segment's starting parameter set.
SmoothStep ==
  /\ pc = "smooth_step"
  /\ st < segment_lens[seg_id + 1]
  /\ \E first \in {nglfs[seg_id + 1]}, second \in {nglfs[seg_id + 2]},
        alpha \in {Alpha(st, segment_lens[seg_id + 1])} :
     \E par \in {AsSeq([i \in 1..cfg.nv |->
                    IF change_points[i] = st THEN second.par[i] ELSE first.par[i]])},
        x_std \in {Interpolate(alpha, first.x_std, second.x_std)},
        cor \in {Interpolate(alpha, first.cor, second.cor)} :
     \E sigma \in {nglf_matrix_from_params(x_std, cor, par)} :
         /\ nglfs' = [nglfs EXCEPT ![seg_id + 1].par = par]
         /\ ground_truth' = Append(ground_truth, sigma)
         /\ data' = [data EXCEPT ![t + 1] = multivariate_normal(sigma, cfg.nv, ns, rng)]
         /\ rng' = NthState(rng, ns * cfg.nv)
         /\ draws' = draws + ns * cfg.nv
         /\ handed' = Append(handed, [x_std |-> x_std, cor |-> cor, par |-> par])
         /\ alphas' = Append(alphas, alpha)
  /\ t' = t + 1
  /\ st' = st + 1
  /\ UNCHANGED <<matVars, evalVars, cfg, pyrng, pc, fn, nt, ns, err, segment_lens, seg_id,
                 sampled, change_points, prev>>

\* the loop over the steps of the segment ends
SmoothSegmentEnd ==
  /\ pc = "smooth_step"
  /\ st = segment_lens[seg_id + 1]
  /\ seg_id' = seg_id + 1
  /\ pc' = "smooth_seg"
  /\ UNCHANGED <<matVars, evalVars, cfg, rng, pyrng, fn, nt, ns, err, draws, segment_lens,
                 data, ground_truth, handed, smoothVars, prev>>

\* line 213
SmoothReturn ==
  /\ pc = "smooth_seg"
  /\ seg_id = n_segments
  /\ pc' = "done"
  /\ UNCHANGED <<matVars, evalVars, cfg, rng, pyrng, fn, nt, ns, err, draws, segment_lens,
                 seg_id, data, ground_truth, handed, smoothVars, prev>>

\* One call of any generator, run to its end.
NextGen ==
  \/ pc = "idle" /\ CallGenerateNglf
  \/ pc = "idle" /\ CallGenerateGeneral
  \/ pc = "idle" /\ CallSudden
  \/ pc = "idle" /\ CallSmooth
  \/ SuddenSeed
  \/ SuddenGenerate
  \/ SuddenReturn
  \/ SmoothParams
  \/ SmoothSegment
  \/ SmoothStep
  \/ SmoothSegmentEnd
  \/ SmoothReturn

SpecGen == InitGen /\ [][NextGen]_vars

\* A call of load_nglf_sudden_change and one more after it.
NextSudden ==
  \/ prev = << >> /\ CallSudden
  \/ SuddenSeed
  \/ SuddenGenerate
  \/ SuddenReturn

SpecSudden == InitGen /\ [][NextSudden]_vars

\* ------------------------------------------------------------------------
\* baselines.py: Baseline.report_scores
\* ------------------------------------------------------------------------
\* A Python value passed as scores: a list of floats (list, items), or one
\* float (items holds it alone).
Scalar(x) == [list |-> FALSE, items |-> <<x>>]

List(v) == [list |-> TRUE, items |-> v]

RECURSIVE ListMax(_, _)
\* The largest of the first k floats of v.
ListMax(v, k) ==
  IF k = 1 THEN v[1]
  ELSE LET rest == ListMax(v, k - 1) IN IF v[k] > rest THEN v[k] ELSE rest

RECURSIVE ListMin(_, _)
\* np.min over the first k floats of v (k >= 1)
ListMin(v, k) ==
  IF k = 1 THEN v[1]
  ELSE LET rest == ListMin(v, k - 1) IN IF v[k] < rest THEN v[k] ELSE rest

\* np.mean of a list of floats that is not empty
Mean(v) == FDiv(FSum(v, Len(v)), FInt(Len(v)))

\* np.std: the root of the mean of the squared distances to the mean
Std(v) ==
  LET mu == Mean(v)
      dev == AsSeq([k \in 1..Len(v) |-> FMul(FSub(v[k], mu), FSub(v[k], mu))])
  IN  FSqrt(Mean(dev))

\* report_scores(scores, n_iter).  np.mean and np.std of an empty list warn
\* and yield nan, np.min of an empty list raises ValueError.
report_scores(a_scores, a_n_iter) ==
  LET lst == IF a_scores.list THEN a_scores.items
             ELSE Repeat(a_scores.items[1], a_n_iter)
  IN  IF Len(lst) = 0
      THEN [err |-> "ValueError", summary |-> None]
      ELSE [err |-> "none",
            summary |-> [mean |-> Mean(lst), std |-> Std(lst),
                         min |-> ListMin(lst, Len(lst)), scores |-> lst]]

\* The scores the NLL metric may yield (floats).
ScoreVals == {FInt(1), FInt(2), FInt(3)}

ListsOf(vals, n) == {AsSeq(v) : v \in [1..n -> vals]}

\* The state of no generator and no matrix call.
Quiet ==
  /\ arg_x_std = << >>
  /\ arg_cor = << >>
  /\ arg_par = << >>
  /\ given = << >>
  /\ S = << >>
  /\ GenIdle

\* report_scores called on its own, with any scores and any n_iter
InitReport ==
  /\ Quiet
  /\ arg_scores \in {Scalar(x) : x \in ScoreVals}
                      \cup {List(v) : v \in UNION {ListsOf(ScoreVals, n) : n \in 0..MaxScores}}
  /\ n_iter \in 0..MaxIter
  /\ baseline = "Baseline"
  /\ n_train = 0
  /\ ev_pc = "idle"
  /\ iteration = 0
  /\ covs = 0
  /\ scores = << >>
  /\ nll = << >>
  /\ fitted = << >>
  /\ nlls = 0
  /\ started = {}
  /\ failed = << >>
  /\ summary = None
  /\ ev_err = "none"

ReportScores ==
  /\ ev_pc = "idle"
  /\ baseline = "Baseline"
  /\ \E r \in {report_scores(arg_scores, n_iter)} :
       /\ summary' = r.summary
       /\ ev_err' = r.err
  /\ ev_pc' = "done"
  /\ UNCHANGED <<matVars, genVars, baseline, arg_scores, n_iter, n_train, iteration,
                 covs, scores, nll, fitted, nlls, started, failed>>

NextReport == ReportScores

SpecReport == InitReport /\ [][NextReport]_vars

\* ------------------------------------------------------------------------
\* Properties of the generators
\* ------------------------------------------------------------------------
Segmented == fn \in {"load_nglf_sudden_change", "load_nglf_smooth_change"}

Matrix(p) == nglf_matrix_from_params(p.x_std, p.cor, p.par)

\* The segment (1 or 2) of the time step k (1..nt).
SegmentOf(k) == IF k <= segment_lens[1] THEN 1 ELSE 2

\* C2: in load_nglf_sudden_change and load_nglf_smooth_change the timeline is
\* split into exactly 2 segment lengths, the first floor(nt/2), the last
\* floor(nt/2) plus the whole remainder, their sum is nt and the assertion
\* sum(segment_lens) == nt does not fail.
C2_SegmentLens ==
  Segmented /\ pc # "idle" =>
    /\ Len(segment_lens) = 2
    /\ segment_lens[1] = nt \div 2
    /\ segment_lens[2] = (nt \div 2) + (nt % 2)
    /\ segment_lens[1] + segment_lens[2] = nt
    /\ err # "AssertionError"

C2_Witness ==
  /\ fn = "load_nglf_smooth_change"
  /\ pc = "done"
  /\ err = "none"
  /\ nt = 5
  /\ segment_lens = <<2, 3>>

SuddenReturned ==
  fn = "load_nglf_sudden_change" /\ pc = "done" /\ err = "none"

\* What C3 says of the data: nt blocks of ns samples of nv values.
DataBlocks ==
  /\ Len(data) = nt
  /\ \A k \in 1..nt :
       /\ Len(data[k]) = ns
       /\ \A j \in 1..ns : Len(data[k][j]) = cfg.nv

\* C3 as claimed: load_nglf_sudden_change returns nt data blocks of ns x nv
\* and nt ground truths, segment 0 first, and every time step of a segment
\* carries the matrix built from that segment's one parameter draw.
C3_AsClaimed ==
  SuddenReturned =>
    /\ DataBlocks
    /\ Len(ground_truth) = nt
    /\ Len(handed) = n_segments
    /\ \A k \in 1..nt : ground_truth[k] = Matrix(handed[SegmentOf(k)])

\* C3, amended: the same, with the matrix of the segment's parameter draw as
\* ground truth when from_matrix is true and None at every step when it is
\* false; either way the steps of a segment carry one and the same value.
C3_SuddenAligned ==
  SuddenReturned =>
    /\ DataBlocks
    /\ Len(ground_truth) = nt
    /\ Len(handed) = n_segments
    /\ \A k \in 1..nt :
         ground_truth[k] =
           IF cfg.from_matrix THEN Matrix(handed[SegmentOf(k)]) ELSE None
    /\ \A k, l \in 1..nt :
         SegmentOf(k) = SegmentOf(l) => ground_truth[k] = ground_truth[l]

C3_Witness ==
  /\ SuddenReturned
  /\ cfg.from_matrix
  /\ cfg.nv = 2
  /\ nt = 3
  /\ ns = 1
  /\ ground_truth[2] = ground_truth[3]
  /\ ground_truth[1] # ground_truth[2]

\* C5: every parent vector generate_nglf hands to the sampler has length nv
\* and values in [0, m), and graphical-mode sampling never indexes a latent
\* factor outside z[0..m-1].
C5_ParentsInRange ==
  fn \in {"generate_nglf", "load_nglf_sudden_change"} =>
    /\ \A k \in 1..Len(handed) :
         /\ Len(handed[k].par) = cfg.nv
         /\ \A i \in 1..cfg.nv : handed[k].par[i] \in 0..(cfg.m - 1)
    /\ err # "IndexError"

\* C6: a generator called with nv not divisible by m ends in an error, and
\* no draw has been taken from a random source when the error is raised.
C6_FailsBeforeSampling ==
  pc = "done" /\ cfg.nv % cfg.m # 0 => err # "none" /\ draws = 0

\* The ground truth of the first time step of segment k (1 or 2), None if
\* the segment has no step.
FirstTruth(truths, lens, k) ==
  LET at == IF k = 1 THEN 1 ELSE lens[1] + 1
  IN  IF lens[k] = 0 \/ at > Len(truths) THEN None ELSE truths[at]

\* C9: a call of load_nglf_sudden_change with the arguments of the call before
\* it ends as that call did, with the same data and the same ground truths,
\* whatever state the random sources were in before either; and the
\* parameters and the ground-truth matrix of segment k are the same in two
\* calls that differ in nt and ns only.
C9_Reproducible ==
  fn = "load_nglf_sudden_change" /\ pc = "done" /\ prev # << >> =>
    LET was == prev[1]
    IN  /\ was.nt = nt /\ was.ns = ns =>
             /\ was.err = err
             /\ was.data = data
             /\ was.ground_truth = ground_truth
        /\ \A k \in 1..n_segments :
             /\ k <= Len(handed) /\ k <= Len(was.handed) => handed[k] = was.handed[k]
             /\ /\ err = "none"
                /\ was.err = "none"
                /\ segment_lens[k] > 0
                /\ SegmentLens(was.nt)[k] > 0
                => FirstTruth(ground_truth, segment_lens, k)
                     = FirstTruth(was.ground_truth, SegmentLens(was.nt), k)

C9_Witness ==
  /\ fn = "load_nglf_sudden_change"
  /\ pc = "done"
  /\ err = "none"
  /\ prev # << >>
  /\ prev[1].nt = nt
  /\ prev[1].ns = ns
  /\ nt = 3
  /\ ns = 1
  /\ cfg.from_matrix
  /\ cfg.shuffle
  /\ prev[1].data = data
  /\ data[1] # data[2]

SmoothReturned ==
  fn = "load_nglf_smooth_change" /\ pc = "done" /\ err = "none"

\* The time step (1..nt) of the first and of the last step of segment k.
FirstStep(k) == IF k = 1 THEN 1 ELSE segment_lens[1] + 1

LastStep(k) == IF k = 1 THEN segment_lens[1] ELSE nt

\* C4 as claimed: in load_nglf_smooth_change the ground truth at the two
\* boundaries of each segment is the matrix of the un-interpolated boundary
\* parameter set: the starting set as sampled at the segment's first step
\* (alpha = 0), the ending set at its last step (alpha = 1).
C4_AsClaimed ==
  SmoothReturned =>
    \A k \in 1..n_segments :
      /\ alphas[FirstStep(k)] = 0
      /\ ground_truth[FirstStep(k)] = Matrix(sampled[k])
      /\ alphas[LastStep(k)] = FInt(1)
      /\ ground_truth[LastStep(k)] = Matrix(sampled[k + 1])

\* C4, amended: the weight alpha = st / L is 0 at the first step of a segment
\* and only there, and stays below 1; the ground truth at alpha = 0 is the
\* matrix of the segment's starting parameter set as originally sampled, so
\* the ending set of segment 0 yields the ground truth of the first step of
\* segment 1, and no step has alpha = 1.
C4_Boundaries ==
  fn = "load_nglf_smooth_change" =>
    /\ Len(alphas) = Len(ground_truth)
    /\ \A k \in 1..Len(ground_truth) :
         /\ alphas[k] >= 0
         /\ alphas[k] < FInt(1)
         /\ alphas[k] = 0 <=> k = FirstStep(SegmentOf(k))
         /\ alphas[k] = 0 => ground_truth[k] = Matrix(sampled[SegmentOf(k)])

C4_Witness ==
  /\ SmoothReturned
  /\ nt = 5
  /\ cfg.nv = 2
  /\ cfg.m = 2
  /\ alphas[3] = 0
  /\ alphas[5] = FDiv(FInt(2), FInt(3))
  /\ ground_truth[3] = Matrix(sampled[2])
  /\ ground_truth[5] # Matrix(sampled[3])
  /\ nglfs[1].par # sampled[1].par

\* ------------------------------------------------------------------------
\* baselines.py: evaluate(train_data, test_data, params, n_iter)
\* ------------------------------------------------------------------------
Baselines ==
  {"GroundTruth", "LinearCorex", "TimeVaryingCorex", "Diagonal", "LedoitWolf", "OAS",
   "PCA", "FactorAnalysis", "GraphLasso", "TimeVaryingGraphLasso"}

\* The loop "for iteration in range(n_iter)" in every class but GraphLasso.
RepeatsButGraphLasso(b) ==
  b \in {"LinearCorex", "TimeVaryingCorex", "TimeVaryingGraphLasso"}

\* The classes whose evaluate has the loop "for iteration in range(n_iter)".
Repeats(b) ==
  b \in {"LinearCorex", "TimeVaryingCorex", "GraphLasso", "TimeVaryingGraphLasso"}

\* The classes that make one estimate per training step: for x in train_data.
PerStep(b) ==
  b \in {"LinearCorex", "Diagonal", "LedoitWolf", "OAS", "PCA", "FactorAnalysis",
         "GraphLasso"}

\* The classes whose estimate is a call of fit, which may raise; Diagonal
\* takes np.var of the step.
Fits(b) == b # "Diagonal"

\* A handler inside the loop body that goes on with the loop.
Resume(p) == "iter"

\* Where an exception raised at p leaves the call: no evaluate has a try
\* statement, the exception leaves evaluate.
Unwind(p) == "done"

InitEval ==
  /\ Quiet
  /\ baseline \in Baselines
  /\ n_iter \in 0..MaxIter
  /\ n_train \in 0..MaxTrain
  /\ arg_scores = << >>
  /\ ev_pc = "idle"
  /\ iteration = 0
  /\ covs = 0
  /\ scores = << >>
  /\ nll = << >>
  /\ fitted = AsSeq([k \in 1..n_train |-> 0])
  /\ nlls = 0
  /\ started = {}
  /\ failed = << >>
  /\ summary = None
  /\ ev_err = "none"

\* evaluate is entered: scores = [] and the loop, or the one pass at once.
\* TimeVaryingGraphLasso first joins the training steps into one series.
EvalStart ==
  /\ ev_pc = "idle"
  /\ baseline \in Baselines
  /\ ev_pc' = IF Repeats(baseline) THEN "iter"
              ELSE IF baseline = "GroundTruth" THEN "nll" ELSE "fit"
  /\ UNCHANGED <<matVars, genVars, baseline, arg_scores, n_iter, n_train, iteration,
                 covs, scores, nll, fitted, nlls, started, failed, summary, ev_err>>

\* for iteration in range(n_iter): the next pass, or the end of the loop
IterationHead ==
  /\ ev_pc = "iter"
  /\ IF iteration < n_iter
     THEN /\ started' = started \cup {iteration}
          /\ covs' = 0
          /\ ev_pc' = IF PerStep(baseline) THEN "fit"
                      ELSE IF baseline = "TimeVaryingCorex" THEN "fit_series"
                      ELSE "tvgl"
     ELSE /\ ev_pc' = "report"
          /\ UNCHANGED <<started, covs>>
  /\ UNCHANGED <<matVars, genVars, baseline, arg_scores, n_iter, n_train, iteration,
                 scores, nll, fitted, nlls, failed, summary, ev_err>>

\* An exception leaves a collaborator called at ev_pc.
Raise(e) ==
  /\ ev_err' = e
  /\ failed' = Append(failed, iteration)
  /\ ev_pc' = Unwind(ev_pc)

\* for x in train_data: the estimate of one training step, or the end of
\* the loop over the steps.
FitStep ==
  /\ ev_pc = "fit"
  /\ \/ /\ covs < n_train
        /\ fitted' = [fitted EXCEPT ![covs + 1] = @ + 1]
        /\ \/ /\ covs' = covs + 1
              /\ UNCHANGED <<ev_pc, ev_err, failed>>
           \/ /\ Fits(baseline)
              /\ Raise("FitError")
              /\ UNCHANGED covs
     \/ /\ covs = n_train
        /\ ev_pc' = "nll"
        /\ UNCHANGED <<fitted, covs, ev_err, failed>>
  /\ UNCHANGED <<matVars, genVars, baseline, arg_scores, n_iter, n_train, iteration,
                 scores, nll, nlls, started, summary>>

\* TimeVaryingCorex: c.fit(train_data), one fit over all training steps
FitSeries ==
  /\ ev_pc = "fit_series"
  /\ fitted' = AsSeq([k \in 1..n_train |-> fitted[k] + 1])
  /\ \/ /\ ev_pc' = "nll"
        /\ UNCHANGED <<ev_err, failed>>
     \/ Raise("FitError")
  /\ UNCHANGED <<matVars, genVars, baseline, arg_scores, n_iter, n_train, iteration,
                 covs, scores, nll, nlls, started, summary>>

\* TimeVaryingGraphLasso: TVGL(data=...) calls the module that "import TVGL"
\* bound, and a module is not callable.
CallTVGL ==
  /\ ev_pc = "tvgl"
  /\ Raise("TypeError")
  /\ UNCHANGED <<matVars, genVars, baseline, arg_scores, n_iter, n_train, iteration,
                 covs, scores, nll, fitted, nlls, started, summary>>

\* metric_utils.calculate_nll_score(data=test_data, covs=covs)
Score ==
  /\ ev_pc = "nll"
  /\ nlls' = nlls + 1
  /\ \/ \E v \in ScoreVals :
          IF Repeats(baseline)
          THEN /\ scores' = Append(scores, v)
               /\ iteration' = iteration + 1
               /\ ev_pc' = "iter"
               /\ UNCHANGED <<nll, ev_err, failed>>
          ELSE /\ nll' = <<v>>
               /\ ev_pc' = "report"
               /\ UNCHANGED <<scores, iteration, ev_err, failed>>
     \/ /\ Raise("NllError")
        /\ UNCHANGED <<scores, iteration, nll>>
  /\ UNCHANGED <<matVars, genVars, baseline, arg_scores, n_iter, n_train, covs,
                 fitted, started, summary>>

\* return self.report_scores(scores, n_iter), or (nll, n_iter)
Report ==
  /\ ev_pc = "report"
  /\ \E r \in {report_scores(IF Repeats(baseline) THEN List(scores) ELSE Scalar(nll[1]),
                             n_iter)} :
       /\ summary' = r.summary
       /\ ev_err' = r.err
  /\ ev_pc' = "done"
  /\ UNCHANGED <<matVars, genVars, baseline, arg_scores, n_iter, n_train, iteration,
                 covs, scores, nll, fitted, nlls, started, failed>>

NextEval ==
  \/ EvalStart
  \/ IterationHead
  \/ FitStep
  \/ FitSeries
  \/ CallTVGL
  \/ Score
  \/ Report

SpecEval == InitEval /\ [][NextEval]_vars

\* ------------------------------------------------------------------------
\* Properties of the evaluation protocol
\* ------------------------------------------------------------------------
ReportReturned == baseline = "Baseline" /\ ev_pc = "done"

\* min is the least element of the list v.
IsMinOf(x, v) ==
  /\ \E k \in 1..Len(v) : v[k] = x
  /\ \A k \in 1..Len(v) : x <= v[k]

\* C7 as claimed: report_scores(scores, n_iter) returns a summary whose
\* scores have length n_iter, for a scalar and for a list of any length, and
\* whose min is the minimum over the returned list.
C7_AsClaimed ==
  ReportReturned =>
    /\ ev_err = "none"
    /\ Len(summary.scores) = n_iter
    /\ IsMinOf(summary.min, summary.scores)

\* C7, amended: report_scores(scores, n_iter) repeats a scalar n_iter times
\* and returns a list as it is, so the returned scores have length n_iter for
\* a scalar and for a list of length n_iter, and the length of the list
\* otherwise; it raises ValueError instead of returning when that list is
\* empty (a scalar with n_iter = 0, an empty list); the min of a returned
\* summary is the minimum over the returned list.
C7_ReportScores ==
  ReportReturned =>
    LET empty == IF arg_scores.list THEN arg_scores.items = << >> ELSE n_iter = 0
    IN  /\ ev_err = (IF empty THEN "ValueError" ELSE "none")
        /\ empty => summary = None
        /\ ~empty =>
             /\ arg_scores.list => summary.scores = arg_scores.items
             /\ ~arg_scores.list =>
                  /\ Len(summary.scores) = n_iter
                  /\ \A k \in 1..n_iter : summary.scores[k] = arg_scores.items[1]
             /\ arg_scores.list /\ Len(arg_scores.items) = n_iter =>
                  Len(summary.scores) = n_iter
             /\ IsMinOf(summary.min, summary.scores)

C7_Witness ==
  /\ ReportReturned
  /\ ev_err = "none"
  /\ arg_scores = List(<<FInt(2), FInt(1), FInt(3)>>)
  /\ n_iter = 2
  /\ Len(summary.scores) = 3
  /\ summary.min = FInt(1)
  /\ summary.mean = FInt(2)

\* C8 as claimed: in evaluate of LinearCorex, TimeVaryingCorex, GraphLasso
\* and TimeVaryingGraphLasso a failure in one iteration costs that
\* iteration's score only: when the call is over every one of the n_iter
\* iterations has been run, and each has its score unless it failed.
C8_AsClaimed ==
  Repeats(baseline) /\ ev_pc = "done" =>
    /\ started = 0..(n_iter - 1)
    /\ Len(scores) + Len(failed) = n_iter

\* C8, amended: in evaluate of these four a failure in one iteration ends
\* the whole call with that failure: that iteration is the last one begun,
\* no later iteration runs, the scores are those of the iterations before
\* it, no value stands for the failed one and no summary is returned.
C8_FailureEndsCall ==
  Repeats(baseline) /\ failed # << >> =>
    /\ ev_pc = "done"
    /\ ev_err \in {"FitError", "NllError", "TypeError"}
    /\ summary = None
    /\ Len(failed) = 1
    /\ started = 0..failed[1]
    /\ Len(scores) = failed[1]
    /\ iteration = failed[1]

C8_Witness ==
  /\ baseline = "LinearCorex"
  /\ n_iter = 3
  /\ n_train = 2
  /\ failed = <<1>>
  /\ ev_err = "FitError"
  /\ ev_pc = "done"
  /\ Len(scores) = 1
  /\ started = {0, 1}
  /\ fitted = <<2, 1>>

Deterministic(b) ==
  b \in {"GroundTruth", "Diagonal", "LedoitWolf", "OAS", "PCA", "FactorAnalysis",
         "GraphLasso"}

EvalReturned == baseline \in Baselines /\ ev_pc = "done" /\ ev_err = "none"

\* One estimate per training step at most, one call of the metric at most,
\* and a returned summary holds the one score n_iter times.
ShortCircuits ==
  /\ \A k \in 1..n_train : fitted[k] <= 1
  /\ nlls <= 1
  /\ EvalReturned =>
       /\ nlls = 1
       /\ Len(nll) = 1
       /\ summary.scores = Repeat(nll[1], n_iter)

\* C10 as claimed: GroundTruth, Diagonal, LedoitWolf, OAS, PCA,
\* FactorAnalysis and GraphLasso each fit a training step at most once and
\* call the NLL metric once for any n_iter >= 1, and return that one score
\* n_iter times.
C10_AsClaimed ==
  Deterministic(baseline) /\ n_iter >= 1 => ShortCircuits

\* C10, amended: that holds of GroundTruth (which fits nothing), Diagonal,
\* LedoitWolf, OAS, PCA and FactorAnalysis; GraphLasso runs the loop, it
\* fits every training step and calls the metric in each of the n_iter
\* iterations and returns the n_iter scores as they came.
C10_ShortCircuit ==
  n_iter >= 1 =>
    /\ Deterministic(baseline) /\ baseline # "GraphLasso" => ShortCircuits
    /\ baseline = "GroundTruth" => \A k \in 1..n_train : fitted[k] = 0
    /\ baseline = "GraphLasso" =>
         /\ nlls <= n_iter
         /\ \A k \in 1..n_train : fitted[k] <= n_iter
         /\ EvalReturned =>
              /\ nlls = n_iter
              /\ \A k \in 1..n_train : fitted[k] = n_iter
              /\ summary.scores = scores
              /\ Len(scores) = n_iter

C10_Witness ==
  /\ EvalReturned
  /\ baseline = "GraphLasso"
  /\ n_iter = 2
  /\ n_train = 2
  /\ fitted = <<2, 2>>
  /\ nlls = 2
  /\ summary.scores = <<FInt(3), FInt(1)>>

\* ------------------------------------------------------------------------
\* Properties of the parent switching of load_nglf_smooth_change
\* ------------------------------------------------------------------------
\* The parent of the variable i at the step a_st of the segment k (1 or 2)
\* when i switches at the step c: the starting parent as sampled before c,
\* the ending parent as sampled from c on.
SwitchedAt(k, i, c, a_st) ==
  IF a_st < c THEN sampled[k].par[i] ELSE sampled[k + 1].par[i]

\* The parent vector in use at the step a_st (0..L-1) of the segment k.
ActivePar(k, a_st) == handed[FirstStep(k) + a_st].par

\* The steps of the segment k taken so far.
StepsTaken(k) ==
  {a_st \in 0..(segment_lens[k] - 1) : FirstStep(k) + a_st <= Len(handed)}

\* C11: in load_nglf_smooth_change, within each segment of length L >= 2
\* every variable i has one change point c in [1, L): at every step before c
\* its active parent is the segment's starting parent, at every step from c
\* on the segment's ending parent, so at the segment's last step the active
\* parent vector is the ending parent set; and while segment 0 is generated
\* the parameter set shared with segment 1 stays as it was sampled.
C11_ParentSwitching ==
  fn = "load_nglf_smooth_change" /\ sampled # << >> =>
    /\ \A k \in 1..n_segments : \A i \in 1..cfg.nv :
         \E c \in 1..(IF segment_lens[k] >= 2 THEN segment_lens[k] - 1 ELSE 1) :
           \A a_st \in StepsTaken(k) : ActivePar(k, a_st)[i] = SwitchedAt(k, i, c, a_st)
    /\ pc = "smooth_step" =>
         /\ \A i \in 1..cfg.nv : change_points[i] \in 1..(segment_lens[seg_id + 1] - 1)
         /\ \A a_st \in StepsTaken(seg_id + 1) : \A i \in 1..cfg.nv :
              ActivePar(seg_id + 1, a_st)[i]
                = SwitchedAt(seg_id + 1, i, change_points[i], a_st)
    /\ \A k \in 1..n_segments :
         segment_lens[k] >= 2 /\ (segment_lens[k] - 1) \in StepsTaken(k) =>
           ActivePar(k, segment_lens[k] - 1) = sampled[k + 1].par
    /\ seg_id = 0 \/ (seg_id = 1 /\ pc = "smooth_seg") => nglfs[2] = sampled[2]
    /\ \A k \in 1..Len(nglfs) :
         nglfs[k].x_std = sampled[k].x_std /\ nglfs[k].cor = sampled[k].cor

C11_Witness ==
  /\ SmoothReturned
  /\ nt = 6
  /\ cfg.nv = 2
  /\ Len(handed) = 6
  /\ ActivePar(1, 0) = sampled[1].par
  /\ ActivePar(1, 1) # sampled[1].par
  /\ ActivePar(1, 1) # sampled[2].par
  /\ ActivePar(1, 2) = sampled[2].par
  /\ ActivePar(2, 0) = sampled[2].par
  /\ nglfs[1].par # sampled[1].par

====
